---- MODULE Spec2Model ----
(***************************************************************************)
(* UserComponent (src/components/userComponent/UserComponent.tsx): a React *)
(* component that fetches a GitHub user through a GraphQL query, shows a   *)
(* spinner for a fixed delay after mount and renders the profile, or a 404 *)
(* image, with a filterable repository list.                               *)
(*                                                                         *)
(* The model follows one component position in the tree through mounts and *)
(* unmounts.  Timers and fetches are never cancelled by the component, so  *)
(* those of earlier instances stay in flight after an unmount.             *)
(***************************************************************************)
EXTENDS Integers, Sequences, FiniteSets, TLC

\* ---- bounds of the model -------------------------------------------------
MaxFetches == 2
MaxMounts == 2
MaxFilterLen == 2

\* ---- JavaScript values ---------------------------------------------------
Null == [t |-> "null"]
Undefined == [t |-> "undefined"]

\* a?.k : undefined when a is null or undefined, the property otherwise
\* (a property the object does not have is held as Undefined)
OptChain(a, k) == IF a \in {Null, Undefined} THEN Undefined ELSE a[k]

\* a?.k.j : the optional access short-circuits the whole chain
OptChain2(a, k, j) == IF a \in {Null, Undefined} THEN Undefined ELSE a[k][j]

\* ---- strings as sequences of characters ----------------------------------
Chars == {"h", "s"}

RECURSIVE StringsUpTo(_)
StringsUpTo(n) ==
    IF n = 0 THEN {<<>>}
    ELSE LET shorter == StringsUpTo(n - 1)
         IN  shorter \cup {Append(s, c) : s \in {x \in shorter : Len(x) = n - 1}, c \in Chars}

FilterTexts == StringsUpTo(MaxFilterLen)

\* String.prototype.includes: f occurs in s as a contiguous substring
Includes(s, f) ==
    \E i \in 0..(Len(s) - Len(f)) : \A j \in 1..Len(f) : s[i + j] = f[j]

\* ---- the remote data -----------------------------------------------------
Usernames == {"octocat", "defunkt", "does-not-exist-xyz"}

\* interface Repository
Repo(id, name, url) == [id |-> id, name |-> name, url |-> url]

\* interface User
User(login, name, followers, following, nodes) ==
    [login |-> login, name |-> name,
     avatarUrl |-> <<"avatar", login>>, url |-> <<"github.com", login>>,
     followers |-> [totalCount |-> followers],
     following |-> [totalCount |-> following],
     repositories |-> [nodes |-> nodes]]

\* what the API holds for each login: a user, or null for an unknown login
Directory(u) ==
    CASE u = "octocat" ->
           User("octocat", "The Octocat", 2, 1,
                << Repo("r1", <<"h", "s">>, "url-r1"),
                   Repo("r2", <<"s", "s">>, "url-r2") >>)
      [] u = "defunkt" ->
           User("defunkt", "Chris", 0, 3,
                << Repo("r3", <<"s", "h">>, "url-r3") >>)
      [] OTHER -> Null

\* the ways a call of fetchData can settle
Outcomes == {"user", "noData", "noUser", "throw"}

\* const query = `query { user(login: "${username}") {...} }`
Query(u) == <<"query { user(login: ", u, ") {...} }">>

\* the payload fetchData resolves with (for the outcomes that do not throw)
Payload(q, outcome) ==
    CASE outcome = "user" -> [data |-> [user |-> Directory(q[2])]]
      [] outcome = "noUser" -> [data |-> [user |-> Undefined]]
      [] OTHER -> [data |-> Undefined]

\* ---- state ---------------------------------------------------------------
VARIABLES
    mounted,      \* the component is in the tree
    inst,         \* number of the current (or last) instance
    username,     \* location.pathname.substring(1)
    userData,     \* useState<User | null>(null)
    filteredRepo, \* useState<string>('')
    loading,      \* useState<boolean>(false)
    timers,       \* instances whose setTimeout callback has not run yet
    requests,     \* every fetchData call: instance, query, status
    logged,       \* number of console.error calls
    view,         \* the last rendered output
    lastEvent     \* the step that led to this state

vars == <<mounted, inst, username, userData, filteredRepo, loading,
          timers, requests, logged, view, lastEvent>>

issued == Len(requests)

NoView == [branch |-> "none", login |-> Undefined, name |-> Undefined,
           avatarUrl |-> Undefined, url |-> Undefined,
           followers |-> Undefined, following |-> Undefined,
           searchBar |-> Undefined, repositories |-> <<>>]

\* Render with every call of UserRepositories given the whole list
RenderWholeList(l, data, filter) ==
    IF l THEN [NoView EXCEPT !.branch = "spinner"]
    ELSE IF data = Null THEN [NoView EXCEPT !.branch = "error404"]
    ELSE [branch |-> "profile",
          avatarUrl |-> OptChain(data, "avatarUrl"),
          login |-> OptChain(data, "login"),
          name |-> OptChain(data, "name"),
          followers |-> OptChain2(data, "followers", "totalCount"),
          following |-> OptChain2(data, "following", "totalCount"),
          url |-> OptChain(data, "url"),
          searchBar |-> [filter |-> filter],
          repositories |->
              IF data \in {Null, Undefined} THEN <<>>
              ELSE LET nodes == data.repositories.nodes
                   IN  [i \in 1..Len(nodes) |->
                          [key |-> nodes[i].id, filter |-> filter,
                           repositories |-> nodes]]]

\* the JSX returned by UserComponent
Render(l, data, filter) ==
    IF l THEN [NoView EXCEPT !.branch = "spinner"]
    ELSE IF data = Null THEN [NoView EXCEPT !.branch = "error404"]
    ELSE [branch |-> "profile",
          avatarUrl |-> OptChain(data, "avatarUrl"),
          login |-> OptChain(data, "login"),
          name |-> OptChain(data, "name"),
          followers |-> OptChain2(data, "followers", "totalCount"),
          following |-> OptChain2(data, "following", "totalCount"),
          url |-> OptChain(data, "url"),
          searchBar |-> [filter |-> filter],
          repositories |->
              IF data \in {Null, Undefined} THEN <<>>
              ELSE LET nodes == data.repositories.nodes
                   IN  [i \in 1..Len(nodes) |->
                          [key |-> nodes[i].id, filter |-> filter,
                           repositories |-> <<nodes[i]>>]]]

\* the UserRepositories collaborator: shows the repositories whose name
\* contains the filter
UserRepositories(filter, repositories) ==
    SelectSeq(repositories, LAMBDA r : Includes(r.name, filter))

Event(type, i, id, outcome, live) ==
    [type |-> type, inst |-> i, id |-> id, outcome |-> outcome, live |-> live]

Init ==
    /\ mounted = FALSE
    /\ inst = 0
    /\ username \in Usernames
    /\ userData = Null
    /\ filteredRepo = <<>>
    /\ loading = FALSE
    /\ timers = {}
    /\ requests = <<>>
    /\ logged = 0
    /\ view = NoView
    /\ lastEvent = Event("init", 0, 0, "none", FALSE)

\* the effect of line 69: fetchDataUser() calls fetchData(query)
IssueFetch(i, u) == Append(requests, [inst |-> i, query |-> Query(u), status |-> "pending"])

\* first render of a new instance followed by both effects
Mount ==
    /\ ~mounted
    /\ inst < MaxMounts
    /\ issued < MaxFetches
    /\ mounted' = TRUE
    /\ inst' = inst + 1
    /\ userData' = Null
    /\ filteredRepo' = <<>>
    /\ requests' = IssueFetch(inst + 1, username)
    /\ loading' = TRUE
    /\ timers' = timers \cup {inst + 1}
    /\ view' = Render(loading', userData', filteredRepo')
    /\ lastEvent' = Event("mount", inst + 1, issued + 1, "none", TRUE)
    /\ UNCHANGED <<username, logged>>

\* the component leaves the tree; neither effect returns a cleanup, so the
\* timer and the fetches stay in flight; the instance's state is discarded
Unmount ==
    /\ mounted
    /\ mounted' = FALSE
    /\ userData' = Null
    /\ filteredRepo' = <<>>
    /\ loading' = FALSE
    /\ view' = NoView
    /\ lastEvent' = Event("unmount", inst, 0, "none", FALSE)
    /\ UNCHANGED <<inst, username, timers, requests, logged>>

\* Navigate with the loading effect depending on [query] as well
NavigateRestartsLoading(u) ==
    /\ username' = u
    /\ IF mounted /\ Query(u) # Query(username)
       THEN /\ issued < MaxFetches
            /\ requests' = IssueFetch(inst, u)
            /\ loading' = TRUE
            /\ timers' = timers \cup {inst}
            /\ lastEvent' = Event("navigate", inst, issued + 1, "none", TRUE)
       ELSE /\ requests' = requests
            /\ loading' = loading
            /\ timers' = timers
            /\ lastEvent' = Event("navigate", inst, 0, "none", mounted)
    /\ view' = IF mounted THEN Render(loading', userData, filteredRepo) ELSE view
    /\ UNCHANGED <<mounted, inst, userData, filteredRepo, logged>>

\* Navigate with the fetch effect running on every render of a new location
NavigateAlwaysFetches(u) ==
    /\ username' = u
    /\ IF mounted
       THEN /\ issued < MaxFetches
            /\ requests' = IssueFetch(inst, u)
            /\ lastEvent' = Event("navigate", inst, issued + 1, "none", TRUE)
       ELSE /\ requests' = requests
            /\ lastEvent' = Event("navigate", inst, 0, "none", mounted)
    /\ view' = IF mounted THEN Render(loading, userData, filteredRepo) ELSE view
    /\ UNCHANGED <<mounted, inst, userData, filteredRepo, loading, timers, logged>>

\* the location changes to /u; a mounted component re-renders, and the
\* effect with dependency [query] runs again when the query differs
Navigate(u) ==
    /\ username' = u
    /\ IF mounted /\ Query(u) # Query(username)
       THEN /\ issued < MaxFetches
            /\ requests' = IssueFetch(inst, u)
            /\ lastEvent' = Event("navigate", inst, issued + 1, "none", TRUE)
       ELSE /\ requests' = requests
            /\ lastEvent' = Event("navigate", inst, 0, "none", mounted)
    /\ view' = IF mounted THEN Render(loading, userData, filteredRepo) ELSE view
    /\ UNCHANGED <<mounted, inst, userData, filteredRepo, loading, timers, logged>>

\* SearchBar calls setFilter; the search bar exists in the profile branch only
SetFilter(f) ==
    /\ mounted
    /\ view.branch = "profile"
    /\ filteredRepo' = f
    /\ view' = Render(loading, userData, f)
    /\ lastEvent' = Event("filter", inst, 0, "none", TRUE)
    /\ UNCHANGED <<mounted, inst, username, userData, loading, timers, requests, logged>>

\* TimerFire with a callback that also resets the stored user
TimerFireResetsUser(i) ==
    /\ i \in timers
    /\ \A k \in timers : i <= k
    /\ timers' = timers \ {i}
    /\ LET live == mounted /\ i = inst
       IN  /\ loading' = IF live THEN FALSE ELSE loading
           /\ userData' = IF live THEN Null ELSE userData
           /\ view' = IF live THEN Render(FALSE, userData', filteredRepo) ELSE view
           /\ lastEvent' = Event("timer", i, 0, "none", live)
    /\ UNCHANGED <<mounted, inst, username, filteredRepo, requests, logged>>

\* the setTimeout callback of instance i runs: setLoading(false).  Timers of
\* equal delay run in the order they were armed.
TimerFire(i) ==
    /\ i \in timers
    /\ \A k \in timers : i <= k
    /\ timers' = timers \ {i}
    /\ LET live == mounted /\ i = inst
       IN  /\ loading' = IF live THEN FALSE ELSE loading
           /\ view' = IF live THEN Render(FALSE, userData, filteredRepo) ELSE view
           /\ lastEvent' = Event("timer", i, 0, "none", live)
    /\ UNCHANGED <<mounted, inst, username, userData, filteredRepo, requests, logged>>

\* FetchSettle with the loading flag tied to the completion of the fetch
FetchSettleEndsLoading(id, outcome) ==
    /\ id \in 1..issued
    /\ requests[id].status = "pending"
    /\ requests' = [requests EXCEPT ![id].status = outcome]
    /\ LET live == mounted /\ requests[id].inst = inst
           data == Payload(requests[id].query, outcome)
       IN  /\ IF outcome = "throw"
              THEN /\ logged' = logged + 1
                   /\ userData' = userData
              ELSE /\ logged' = logged
                   /\ userData' = IF live
                                  THEN OptChain(OptChain(data, "data"), "user")
                                  ELSE userData
           /\ loading' = IF live THEN FALSE ELSE loading
           /\ view' = IF live THEN Render(loading', userData', filteredRepo) ELSE view
           /\ lastEvent' = Event("settle", requests[id].inst, id, outcome, live)
    /\ UNCHANGED <<mounted, inst, username, filteredRepo, timers>>

\* the fetchData call of request id settles: the continuation of
\* fetchDataUser runs (try: setUserData(data?.data?.user); catch: console.error)
FetchSettle(id, outcome) ==
    /\ id \in 1..issued
    /\ requests[id].status = "pending"
    /\ requests' = [requests EXCEPT ![id].status = outcome]
    /\ LET live == mounted /\ requests[id].inst = inst
           data == Payload(requests[id].query, outcome)
       IN  /\ IF outcome = "throw"
              THEN /\ logged' = logged + 1
                   /\ userData' = userData
              ELSE /\ logged' = logged
                   /\ userData' = IF live
                                  THEN OptChain(OptChain(data, "data"), "user")
                                  ELSE userData
           /\ view' = IF live THEN Render(loading, userData', filteredRepo) ELSE view
           /\ lastEvent' = Event("settle", requests[id].inst, id, outcome, live)
    /\ UNCHANGED <<mounted, inst, username, filteredRepo, loading, timers>>

Next ==
    \/ Mount
    \/ Unmount
    \/ \E u \in Usernames : Navigate(u)
    \/ \E f \in FilterTexts : SetFilter(f)
    \/ \E i \in timers : TimerFire(i)
    \/ \E id \in 1..issued, o \in Outcomes : FetchSettle(id, o)

Spec == Init /\ [][Next]_vars

TypeOK ==
    /\ mounted \in BOOLEAN
    /\ inst \in 0..MaxMounts
    /\ username \in Usernames
    /\ loading \in BOOLEAN
    /\ filteredRepo \in FilterTexts
    /\ issued <= MaxFetches
    /\ logged <= issued
\* ---- vocabulary of the properties ----------------------------------------
IsUser(d) == d \notin {Null, Undefined}

\* the requests issued by the current instance
Mine == {id \in 1..issued : requests[id].inst = inst}

Settled(id) == requests[id].status # "pending"

\* request id settled without throwing and without a user in the payload
SettledWithoutUser(id) ==
    \/ requests[id].status \in {"noData", "noUser"}
    \/ requests[id].status = "user" /\ Directory(requests[id].query[2]) = Null

\* the timer armed at the mount of the current instance has run
TimerDone == inst \notin timers

\* the repositories shown by the UserRepositories calls of the view
Shown ==
    UNION { LET shown == UserRepositories(view.repositories[i].filter,
                                          view.repositories[i].repositories)
            IN  {shown[k] : k \in 1..Len(shown)}
            : i \in 1..Len(view.repositories) }

\* ---- C1 ------------------------------------------------------------------
\* C1: whenever a fetch settles with a failure, the stored profile becomes
\* null and exactly one diagnostic is logged; a profile stored by an earlier
\* successful fetch does not stay stored.
C1_FailureStoresNull ==
    [][(lastEvent'.type = "settle" /\ lastEvent'.outcome = "throw")
         => (userData' = Null /\ logged' = logged + 1)]_vars

\* ---- C2 ------------------------------------------------------------------
\* C2: when the fetches of the mounted instance that settled without
\* throwing all came back without a user (user: null, no data field, no
\* user field), the view after the loading phase is the not-found image.
C2_MissingUserIsNotFound ==
    (/\ mounted
     /\ ~loading
     /\ \E id \in Mine : SettledWithoutUser(id)
     /\ \A id \in Mine : Settled(id) =>
            (SettledWithoutUser(id) \/ requests[id].status = "throw"))
    => view.branch = "error404"

\* ---- C3 ------------------------------------------------------------------
\* C3: the view is the spinner while loading, else the not-found image when
\* no profile is stored, else the profile view showing exactly the fields of
\* the stored profile and one list entry per stored repository, in order.
C3_ViewByPriority ==
    mounted =>
        IF loading THEN view.branch = "spinner"
        ELSE IF ~IsUser(userData) THEN view.branch = "error404"
        ELSE /\ view.branch = "profile"
             /\ view.login = userData.login
             /\ view.name = userData.name
             /\ view.avatarUrl = userData.avatarUrl
             /\ view.url = userData.url
             /\ view.followers = userData.followers.totalCount
             /\ view.following = userData.following.totalCount
             /\ Len(view.repositories) = Len(userData.repositories.nodes)
             /\ \A i \in 1..Len(view.repositories) :
                    view.repositories[i].key = userData.repositories.nodes[i].id

C5_OneCallPerRepository ==
    (mounted /\ ~loading /\ IsUser(userData)) =>
        LET R == userData.repositories.nodes
        IN  /\ Len(view.repositories) = Len(R)
            /\ \A i \in 1..Len(R) :
                  /\ view.repositories[i].repositories = <<R[i]>>
                  /\ view.repositories[i].filter = filteredRepo
            /\ Shown = {R[i] : i \in {j \in 1..Len(R) : Includes(R[j].name, filteredRepo)}}
            /\ filteredRepo = <<>> => Shown = {R[i] : i \in 1..Len(R)}

\* a filter that keeps one repository and hides another
C5_Witness ==
    /\ mounted /\ ~loading /\ IsUser(userData)
    /\ filteredRepo # <<>>
    /\ Shown # {}
    /\ Cardinality(Shown) < Len(userData.repositories.nodes)

\* ---- C6 ------------------------------------------------------------------
\* the view is settled: timer run, no fetch of the instance pending
ViewSettled == mounted /\ TimerDone /\ \A id \in Mine : Settled(id)

UsernameChanges == lastEvent'.type = "navigate" /\ username' # username

\* C6 as stated: a change of the username in a settled view restarts the
\* loading phase (loading true, a timer armed) and issues one fetch.
C6_ChangeRestartsLoadingAndFetch ==
    [][(ViewSettled /\ UsernameChanges)
         => (loading' /\ inst \in timers' /\ issued' = issued + 1)]_vars

\* C6 amended: a change of the username in a settled view issues exactly one
\* fetch, for the new username, and leaves the loading phase alone: loading
\* stays false and no timer is armed.
C6_ChangeRestartsFetchOnly ==
    [][(ViewSettled /\ UsernameChanges)
         => /\ issued' = issued + 1
            /\ requests'[issued'] =
                 [inst |-> inst, query |-> Query(username'), status |-> "pending"]
            /\ \A id \in 1..issued : requests'[id] = requests[id]
            /\ loading' = FALSE
            /\ timers' = timers
            /\ view'.branch # "spinner"]_vars

\* a username change made in a settled view
C6_Witness ==
    /\ lastEvent.type = "navigate" /\ lastEvent.id = issued
    /\ mounted /\ TimerDone /\ ~loading
    /\ Cardinality(Mine) >= 2
    /\ \A id \in Mine : id # issued => Settled(id)
    /\ requests[issued].status = "pending"
    /\ requests[issued].query = Query(username)

\* ---- C7 ------------------------------------------------------------------
\* C7: a fetch result is applied to the stored profile only if it belongs to
\* the most recently issued request, and once that request has settled the
\* stored profile is not the profile of another username.
C7_OnlyLatestRequestApplied ==
    /\ (lastEvent.type = "settle" /\ lastEvent.live /\ lastEvent.outcome # "throw")
          => lastEvent.id = issued
    /\ (mounted /\ issued \in Mine /\ Settled(issued) /\ IsUser(userData))
          => userData.login = username

\* ---- C8 ------------------------------------------------------------------
\* C8: the timer is cancelled when the component is torn down, so its
\* callback (setLoading(false)) never runs for an instance that is no
\* longer mounted.
C8_TimerCancelledAtTeardown ==
    lastEvent.type = "timer" => lastEvent.live

\* ---- C9 ------------------------------------------------------------------
\* one mount, one username, one fetch, both asynchronous events done
SingleFetchDone ==
    /\ mounted /\ TimerDone
    /\ Cardinality(Mine) = 1
    /\ \A id \in Mine : Settled(id)

\* C9: with one fetch in the mount, the state after both the timer and the
\* fetch are done depends on the outcome of the fetch only, not on which of
\* the two came first, and the view is one of the two settled branches.
C9_OrderIndependent ==
    SingleFetchDone =>
        LET r == requests[CHOOSE id \in Mine : TRUE]
            stored == CASE r.status = "user" -> Directory(username)
                        [] r.status = "throw" -> Null
                        [] OTHER -> Undefined
        IN  /\ ~loading
            /\ userData = stored
            /\ view = Render(FALSE, stored, filteredRepo)
            /\ view.branch \in {"error404", "profile"}

\* the fetch settled first and the timer ran last
C9_Witness ==
    /\ SingleFetchDone
    /\ lastEvent.type = "timer" /\ lastEvent.live
    /\ IsUser(userData)

\* ---- C10 -----------------------------------------------------------------
\* C10: one fetch is issued by a mount and one by each change of the
\* username of a mounted component; no other step (filter update, timer,
\* settlement of a fetch, unmount, navigation to the same username) issues
\* a fetch.
C10_FetchPerUsernameChange ==
    [][issued' = issued +
         (IF \/ lastEvent'.type = "mount"
             \/ mounted /\ UsernameChanges
          THEN 1 ELSE 0)]_vars

\* a failed fetch after a username change: two fetches issued, no retry
C10_Witness ==
    /\ mounted
    /\ issued = 2 /\ Mine = {1, 2}
    /\ lastEvent.type = "settle" /\ lastEvent.outcome = "throw"
    /\ requests[1].query # requests[2].query
====
